---- MODULE Spec2Model ----
(***************************************************************************)
(* A model of the dataset-splitting utilities of tdc/utils/split.py.       *)
(*                                                                         *)
(* Every split function is a call on a table; the state is the caller's    *)
(* table, the process-wide numpy random state, and the last call with its  *)
(* outcome.  Output tables are kept as sequences of row positions of the   *)
(* input (1-based), in output order, so that row identity survives         *)
(* reset_index(drop = True).  hashSeed is the process's string-hash seed,   *)
(* which fixes the order in which a set of strings is listed.              *)
(*                                                                         *)
(* Ratios are exact rationals: a frac is [n |-> <<a, b, c>>, d |-> den],   *)
(* standing for (a/den, b/den, c/den).  On the ratios and table lengths    *)
(* used here the exact int(...) and round(...) below equal the results of  *)
(* the code's double arithmetic (eighths are exact doubles; the two tenths *)
(* triples agree on every length used with them).  create_fold_time sums   *)
(* two fractions before multiplying, so it is given eighths only.          *)
(*                                                                         *)
(* The random generators (numpy's global RandomState, pandas' per-call     *)
(* RandomState(random_state), random.Random) are external; each is         *)
(* modelled as the same deterministic generator: seeding is a function of  *)
(* the seed, each draw is a function of the state and advances it.         *)
(***************************************************************************)
EXTENDS Integers, Sequences, FiniteSets, TLC

VARIABLES df, dfCols, npState, hashSeed, args, call, out, ref

vars == <<df, dfCols, npState, hashSeed, args, call, out, ref>>

----------------------------------------------------------------------------
(* Bounds of the model. *)

MaxLen == 5
MaxSeed == 3
MaxEntropy == 1

Seeds == (0 .. MaxSeed) \cup {42}

Entropy == 0 .. MaxEntropy

----------------------------------------------------------------------------
(* Arithmetic of the size computations. *)

Min(a, b) == IF a <= b THEN a ELSE b

Max(a, b) == IF a >= b THEN a ELSE b

\* int(n * a/d) for n, a >= 0: truncation.
IntMul(n, a, d) == (n * a) \div d

\* round(p/q) for p >= 0, q > 0: Python 3 rounds half to even.
Round(p, q) ==
    LET f == p \div q
        r == p % q
    IN  IF 2 * r < q THEN f
        ELSE IF 2 * r > q THEN f + 1
        ELSE IF f % 2 = 0 THEN f ELSE f + 1

Range(s) == {s[i] : i \in DOMAIN s}

\* The Python slice x[lo:hi] of a sequence, for lo, hi as Python normalises
\* them: a negative bound counts from the end, every bound is clamped.
PyNorm(i, n) == IF i < 0 THEN Max(i + n, 0) ELSE Min(i, n)

PySlice(x, lo, hi) ==
    LET a == PyNorm(lo, Len(x))
        b == PyNorm(hi, Len(x))
    IN  IF b <= a THEN <<>> ELSE [i \in 1 .. (b - a) |-> x[a + i]]

----------------------------------------------------------------------------
(* The random generator. *)


\* The state is a counter; the i-th draw from state st is Mix(st + i), and n
\* draws leave the state at st + n.
Mix(x) ==
    LET y == (25173 * (x % 65536) + 13849) % 65536
    IN  (y * (y % 181) + (y \div 7)) % 65521

RngSeed(seed) == Mix(seed) % 65536

RngAdvance(st, n) == (st + n) % 65536

\* Faulty variant: the state is left as found, not reseeded.
SeededState_missing(st, seed) == st

\* np.random.seed(seed) on the process-wide state st (lines 123, 183, 194).
SeededState(st, seed) == RngSeed(seed)

\* np.random.rand(n) < p/q: one draw per item, each one of sixteen odd
\* sixteenths of the unit interval.
RandBelow(n, p, q, st) ==
    [i \in 1 .. n |-> (2 * (Mix(st + i) % 8) + 1) * q < 16 * p]

Keys(n, st) == [i \in 1 .. n |-> Mix(st + i)]

Ranks(key) ==
    [i \in DOMAIN key |->
        1 + Cardinality({j \in DOMAIN key :
                \/ key[j] < key[i]
                \/ (key[j] = key[i] /\ j < i)})]

Order(rank) == [k \in DOMAIN rank |-> CHOOSE i \in DOMAIN rank : rank[i] = k]

\* x.take(locs): the items of x at the places locs, in that order.
Take(x, locs) == [k \in DOMAIN locs |-> x[locs[k]]]

\* shuffle(x): the items of x in the order of their draws (one draw per
\* item, ties by place); the state after it.
Shuffle(x, st) ==
    [seq |-> Take(x, Order(Ranks(Keys(Len(x), st)))),
     st |-> RngAdvance(st, Len(x))]

\* choice(pop, k, replace = False): the first k of a permutation of pop.
Choice(pop, k, st) ==
    [seq |-> SubSeq(Shuffle(pop, st).seq, 1, k), st |-> RngAdvance(st, Len(pop))]

----------------------------------------------------------------------------
(* train_val_test_split *)

Ratios ==
    { [n |-> <<6, 1, 1>>, d |-> 8], [n |-> <<4, 2, 2>>, d |-> 8],
      [n |-> <<4, 4, 0>>, d |-> 8], [n |-> <<2, 2, 4>>, d |-> 8],
      [n |-> <<7, 1, 2>>, d |-> 10], [n |-> <<8, 1, 1>>, d |-> 10] }

NoCall == [fn |-> "none"]

NoOut == [train |-> <<>>, valid |-> <<>>, test |-> <<>>]

train_val_test_split(len_data, frac, seed, st) ==
    LET test_size == IntMul(len_data, frac.n[3], frac.d)
        train_size == IntMul(len_data, frac.n[1], frac.d)
        val_size == len_data - train_size - test_size
        x == [i \in 1 .. len_data |-> i - 1]
        sh == Shuffle(x, SeededState(st, seed))
    IN  [train |-> PySlice(sh.seq, 0, train_size),
         valid |-> PySlice(sh.seq, train_size, train_size + val_size),
         test |-> PySlice(sh.seq, -test_size, len_data),
         st |-> sh.st]

IndexSplit(len_data, frac, seed) ==
    LET r == train_val_test_split(len_data, frac, seed, npState)
    IN  /\ call' = [fn |-> "train_val_test_split", len |-> len_data,
                    frac |-> frac, seed |-> seed, returned |-> TRUE]
        /\ out' = [train |-> r.train, valid |-> r.valid, test |-> r.test]
        /\ npState' = r.st
        /\ UNCHANGED <<df, dfCols, hashSeed, args, ref>>

InitIndex ==
    /\ df = <<>>
    /\ dfCols = {}
    /\ npState \in Entropy
    /\ args \in [len : 0 .. MaxLen + 2, frac : Ratios, seed : Seeds]
    /\ hashSeed = 0
    /\ call = NoCall
    /\ out = NoOut
    /\ ref = NoCall

NextIndex == IndexSplit(args.len, args.frac, args.seed)

SpecIndex == InitIndex /\ [][NextIndex]_vars

----------------------------------------------------------------------------
(* Tables.  A row of the random and cold splits is [idx |-> its index      *)
(* label, ent |-> its entity value]; a table is a sequence of rows.        *)

Entities == {"e1", "e2", "e3"}

\* The index labels of an n-row table: the default 0..n-1, or labels that
\* repeat (as after a concatenation of frames).
IndexOf(kind, i) == IF kind = "range" THEN i - 1 ELSE (i - 1) \div 2

TablesOfLen(n) ==
    { [i \in 1 .. n |-> [idx |-> IndexOf(kind, i), ent |-> e[i]]] :
        kind \in {"range", "repeat"}, e \in [1 .. n -> Entities] }

Tables == UNION { TablesOfLen(n) : n \in 0 .. MaxLen - 1 }

\* The 100-row table with the default index.
HundredRows ==
    [i \in 1 .. 100 |-> [idx |-> i - 1, ent |-> IF i % 3 = 0 THEN "e1" ELSE "e2"]]

Positions(t) == [i \in 1 .. Len(t) |-> i]

\* Series.drop_duplicates(): the values of a column over ps, first
\* occurrences kept, in order.
FirstOccurrences(vals) ==
    SelectSeq([i \in 1 .. Len(vals) |-> i],
              LAMBDA i : \A j \in 1 .. (i - 1) : vals[j] # vals[i])

DropDuplicates(vals) == Take(vals, FirstOccurrences(vals))

Raised(err) ==
    [returned |-> FALSE, error |-> err, train |-> <<>>, valid |-> <<>>, test |-> <<>>]

Returned(train, valid, test) ==
    [returned |-> TRUE, error |-> "", train |-> train, valid |-> valid, test |-> test]

\* (DataFrame|Series).sample(frac = a/d, replace = False, random_state = seed)
\* on the items pop: round(frac * len) of them, drawn by a generator of its
\* own seeded with random_state.
SampleSize(n, a, d) == Round(a * n, d)

Sample(pop, a, d, seed) == Choice(pop, SampleSize(Len(pop), a, d), RngSeed(seed)).seq

----------------------------------------------------------------------------
(* create_fold *)

LabelsOf(t, ps) == {t[p].idx : p \in Range(ps)}

\* t[~t.index.isin(labels)] over the rows ps.
WithoutLabels(t, ps, labels) == SelectSeq(ps, LAMBDA p : t[p].idx \notin labels)

\* t[t[entity].isin(ents)] and t[~t[entity].isin(ents)] over the rows ps.
WithEnts(t, ps, entity, ents) == SelectSeq(ps, LAMBDA p : t[p][entity] \in ents)

WithoutEnts(t, ps, entity, ents) == SelectSeq(ps, LAMBDA p : t[p][entity] \notin ents)

EntColumn(t, ps, entity) == [k \in 1 .. Len(ps) |-> t[ps[k]][entity]]

\* Faulty variant: validation rows sampled at val_frac itself, not at
\* val_frac/(1-test_frac).
create_fold_val_unscaled(t, frac, test, train_val) ==
    LET val == Sample(train_val, frac.n[2], frac.d, 1)
    IN  IF frac.d - frac.n[3] = 0 THEN Raised("ZeroDivisionError")
        ELSE Returned(WithoutLabels(t, train_val, LabelsOf(t, val)), val, test)

\* Lines 11-16: the validation sample of train_val and what is left.
create_fold_val(t, frac, test, train_val) ==
    LET rest == frac.d - frac.n[3]
        val == Sample(train_val, frac.n[2], rest, 1)
    IN  IF rest = 0 THEN Raised("ZeroDivisionError")
        ELSE IF frac.n[2] > rest THEN Raised("ValueError")
        ELSE Returned(WithoutLabels(t, train_val, LabelsOf(t, val)), val, test)

create_fold_test(t, frac, test) ==
    create_fold_val(t, frac, test, WithoutLabels(t, Positions(t), LabelsOf(t, test)))

create_fold(t, fold_seed, frac) ==
    create_fold_test(t, frac, Sample(Positions(t), frac.n[3], frac.d, fold_seed))

----------------------------------------------------------------------------
(* create_fold_setting_cold *)

\* Faulty variant: validation rows sampled row by row, not by entity.
create_cold_val_by_row(t, fold_seed, frac, entity, test, train_val) ==
    LET rest == frac.d - frac.n[3]
        val == Sample(train_val, frac.n[2], rest, fold_seed)
    IN  IF rest = 0 THEN Raised("ZeroDivisionError")
        ELSE IF frac.n[2] > rest THEN Raised("ValueError")
        ELSE Returned(SelectSeq(train_val, LAMBDA p : p \notin Range(val)), val, test)

\* Lines 27-33: the validation entities of train_val and what is left.
create_cold_val(t, fold_seed, frac, entity, test, train_val) ==
    LET rest == frac.d - frac.n[3]
        gene_drop_val ==
            Range(Sample(DropDuplicates(EntColumn(t, train_val, entity)),
                         frac.n[2], rest, fold_seed))
    IN  IF rest = 0 THEN Raised("ZeroDivisionError")
        ELSE IF frac.n[2] > rest THEN Raised("ValueError")
        ELSE Returned(WithoutEnts(t, train_val, entity, gene_drop_val),
                      WithEnts(t, train_val, entity, gene_drop_val), test)

create_cold_test(t, fold_seed, frac, entity, gene_drop) ==
    create_cold_val(t, fold_seed, frac, entity,
                    WithEnts(t, Positions(t), entity, gene_drop),
                    WithoutEnts(t, Positions(t), entity, gene_drop))

create_fold_setting_cold(t, fold_seed, frac, entity) ==
    create_cold_test(t, fold_seed, frac, entity,
        Range(Sample(DropDuplicates(EntColumn(t, Positions(t), entity)),
                     frac.n[3], frac.d, fold_seed)))

Outcome(r) == [train |-> r.train, valid |-> r.valid, test |-> r.test]

Fold(fold_seed, frac) ==
    LET r == create_fold(df, fold_seed, frac)
    IN  /\ call' = [fn |-> "create_fold", input |-> df, cols |-> dfCols,
                    frac |-> frac, seed |-> fold_seed, returned |-> r.returned]
        /\ out' = Outcome(r)
        /\ UNCHANGED <<df, dfCols, npState, hashSeed, args, ref>>

FoldSettingCold(fold_seed, frac, entity) ==
    LET r == create_fold_setting_cold(df, fold_seed, frac, entity)
    IN  /\ call' = [fn |-> "create_fold_setting_cold", input |-> df, cols |-> dfCols,
                    frac |-> frac, seed |-> fold_seed, entity |-> entity,
                    returned |-> r.returned]
        /\ out' = Outcome(r)
        /\ UNCHANGED <<df, dfCols, npState, hashSeed, args, ref>>

FoldRatios ==
    Ratios \cup { [n |-> <<0, 0, 8>>, d |-> 8], [n |-> <<4, 0, 4>>, d |-> 8],
                  [n |-> <<5, 1, 2>>, d |-> 8] }

InitFold ==
    /\ df \in Tables \cup {HundredRows}
    /\ dfCols = {"ent"}
    /\ npState = 0
    /\ args \in [frac : FoldRatios, seed : Seeds]
    /\ hashSeed = 0
    /\ call = NoCall
    /\ out = NoOut
    /\ ref = NoCall

NextFold ==
    \/ Fold(args.seed, args.frac)
    \/ FoldSettingCold(args.seed, args.frac, "ent")

SpecFold == InitFold /\ [][NextFold]_vars

----------------------------------------------------------------------------
(* create_scaffold_split.  The entity column holds SMILES strings.         *)

Smiles == {"Cc1ccccc1", "Oc1ccccc1", "C1CCCCC1", "C1CC1", "not-smiles"}

SmilesTables ==
    UNION { { [i \in 1 .. n |-> [idx |-> i - 1, ent |-> e[i]]] : e \in [1 .. n -> Smiles] } :
            n \in 0 .. MaxLen - 1 }

\* Chem.MolFromSmiles followed by MurckoScaffoldSmiles (line 58): the
\* scaffold of a molecule, or "error" where the call raises.
MurckoScaffoldSmiles(smiles) ==
    CASE smiles \in {"Cc1ccccc1", "Oc1ccccc1"} -> "c1ccccc1"
      [] smiles = "C1CCCCC1" -> "C1CCCCC1"
      [] smiles = "C1CC1" -> "C1CC1"
      [] OTHER -> "error"

ScaffoldColumn(t, entity) == [i \in 1 .. Len(t) |-> MurckoScaffoldSmiles(t[i][entity])]

ErrorRows(t, entity) == {i \in 1 .. Len(t) : MurckoScaffoldSmiles(t[i][entity]) = "error"}

\* Faulty variant: every row that yields a scaffold is a group of its own.
ScaffoldGroups_by_row(scaf) ==
    LET rows == SelectSeq([i \in 1 .. Len(scaf) |-> i], LAMBDA i : scaf[i] # "error")
    IN  [k \in 1 .. Len(rows) |-> {rows[k]}]

\* Lines 52-59: the rows of each scaffold, in the order the scaffolds are
\* first met.
ScaffoldGroups(scaf) ==
    LET keys == DropDuplicates(SelectSeq(scaf, LAMBDA v : v # "error"))
    IN  [k \in 1 .. Len(keys) |-> {i \in 1 .. Len(scaf) : scaf[i] = keys[k]}]

\* A set of rows as the list `+=` appends: ascending.
Ascending(S) ==
    [k \in 1 .. Cardinality(S) |->
        CHOOSE x \in S : Cardinality({y \in S : y < x}) = k - 1]

\* Lines 84-102: each group goes whole to train while it fits, else to
\* valid (while it fits, when a test fraction was asked), else to test.
RECURSIVE AssignGroups(_, _, _, _, _, _)
AssignGroups(index_sets, k, acc, train_size, val_size, noTest) ==
    IF k > Len(index_sets) THEN acc
    ELSE LET index_set == index_sets[k]
             n == Cardinality(index_set)
             next ==
                 IF Len(acc.train) + n <= train_size
                 THEN [acc EXCEPT !.train = @ \o Ascending(index_set)]
                 ELSE IF noTest \/ Len(acc.valid) + n <= val_size
                 THEN [acc EXCEPT !.valid = @ \o Ascending(index_set)]
                 ELSE [acc EXCEPT !.test = @ \o Ascending(index_set)]
         IN  AssignGroups(index_sets, k + 1, next, train_size, val_size, noTest)

\* Lines 79-82: big groups shuffled, then small groups shuffled by the same
\* generator, big ones first.
ShuffledGroups(big, small, seed) ==
    Shuffle(big, RngSeed(seed)).seq \o Shuffle(small, RngAdvance(RngSeed(seed), Len(big))).seq

\* Lines 64-106, for the groups found and the number of rows that raised.
scaffold_assign(t, seed, frac, index_sets, error_smiles) ==
    LET train_size == IntMul(Len(t) - error_smiles, frac.n[1], frac.d)
        val_size == IntMul(Len(t) - error_smiles, frac.n[2], frac.d)
        test_size == (Len(t) - error_smiles) - train_size - val_size
        IsBig(g) == 2 * Cardinality(g) > val_size \/ 2 * Cardinality(g) > test_size
        big == SelectSeq(index_sets, IsBig)
        small == SelectSeq(index_sets, LAMBDA g : ~IsBig(g))
        acc == AssignGroups(ShuffledGroups(big, small, seed), 1, NoOut,
                            train_size, val_size, frac.n[3] = 0)
    IN  Returned(acc.train, acc.valid, acc.test)

\* The handler of line 60 calls print_sys, a name split.py neither defines
\* nor imports: the first row that raises ends the call with a NameError.
create_scaffold_split(t, seed, frac, entity) ==
    IF ErrorRows(t, entity) # {} THEN Raised("NameError")
    ELSE scaffold_assign(t, seed, frac, ScaffoldGroups(ScaffoldColumn(t, entity)), 0)

ScaffoldSplit(seed, frac, entity) ==
    LET r == create_scaffold_split(df, seed, frac, entity)
    IN  /\ call' = [fn |-> "create_scaffold_split", input |-> df, cols |-> dfCols,
                    frac |-> frac, seed |-> seed, entity |-> entity,
                    returned |-> r.returned]
        /\ out' = Outcome(r)
        /\ UNCHANGED <<df, dfCols, npState, hashSeed, args, ref>>

InitScaffold ==
    /\ df \in SmilesTables
    /\ dfCols = {"ent"}
    /\ npState = 0
    /\ args \in [frac : FoldRatios, seed : Seeds]
    /\ hashSeed = 0
    /\ call = NoCall
    /\ out = NoOut
    /\ ref = NoCall

NextScaffold == ScaffoldSplit(args.seed, args.frac, "ent")

SpecScaffold == InitScaffold /\ [][NextScaffold]_vars

----------------------------------------------------------------------------
(* create_combination_split *)

MaxCombLen == 5

\* The rows a drug-pair table is made of: three keys under two cell lines,
\* the key "A,B,C" coming from two different drug pairs.
CombKinds ==
    << <<"A", "C", "c1">>, <<"A", "C", "c2">>,
       <<"A", "B,C", "c1">>, <<"A,B", "C", "c2">>,
       <<"B", "C", "c1">>, <<"B", "C", "c2">> >>

CombRow(i, kind) ==
    [idx |-> i - 1, Drug1_ID |-> kind[1], Drug2_ID |-> kind[2], Cell_Line_ID |-> kind[3]]

\* Tables of up to MaxCombLen rows, rows listed in the order of CombKinds
\* (the function reads the table through its sets of keys and cell lines
\* and through row filters, so the order of the rows only orders the output).
CombTables ==
    UNION { { [i \in 1 .. n |-> CombRow(i, CombKinds[k[i]])] :
                k \in {f \in [1 .. n -> DOMAIN CombKinds] :
                          \A i \in 1 .. (n - 1) : f[i] <= f[i + 1]} } :
            n \in 0 .. MaxCombLen }

CombCols == {"Drug1_ID", "Drug2_ID", "Cell_Line_ID"}

HashSeeds == {0, 1}

\* Line 126: the key of a row.
ConcatOf(row) == row.Drug1_ID \o "," \o row.Drug2_ID

\* The caller's table after line 126, which adds the column in place.
AddConcat(t) ==
    [i \in DOMAIN t |->
        [idx |-> t[i].idx, Drug1_ID |-> t[i].Drug1_ID, Drug2_ID |-> t[i].Drug2_ID,
         Cell_Line_ID |-> t[i].Cell_Line_ID, concat |-> ConcatOf(t[i])]]

KeyRank(key) ==
    CASE key = "A,C" -> 1
      [] key = "A,B,C" -> 2
      [] OTHER -> 3

\* list(S) of a set of strings: an order the process's hash seed fixes.
ListOfSet(S, h) ==
    [k \in 1 .. Cardinality(S) |->
        CHOOSE x \in S :
            Cardinality({y \in S : IF h = 0 THEN KeyRank(y) < KeyRank(x)
                                             ELSE KeyRank(y) > KeyRank(x)}) = k - 1]

\* Faulty variant: the keys seen under any cell line.
Intersection_any(t, cells) == {t[i].concat : i \in DOMAIN t}

\* Lines 129-136: the keys seen under every cell line.
Intersection(t, cells) ==
    {key \in {t[i].concat : i \in DOMAIN t} :
        \A c \in cells : \E i \in DOMAIN t : t[i].Cell_Line_ID = c /\ t[i].concat = key}

WithKeys(t, keys) == SelectSeq(Positions(t), LAMBDA p : t[p].concat \in keys)

WithoutKeys(t, keys) == SelectSeq(Positions(t), LAMBDA p : t[p].concat \notin keys)

RaisedAt(err, st) ==
    [returned |-> FALSE, error |-> err, train |-> <<>>, valid |-> <<>>,
     test |-> <<>>, st |-> st]

\* Lines 143-155, for the test keys drawn.
comb_val(t, h, nVal, intxn, test_choices, st) ==
    LET trainval_intxn == ListOfSet(intxn \ test_choices, h)
        val_choices == Range(Choice(trainval_intxn, nVal, st).seq)
    IN  IF nVal > Len(trainval_intxn) THEN RaisedAt("ValueError", st)
        ELSE [returned |-> TRUE, error |-> "",
              train |-> WithoutKeys(t, test_choices \cup val_choices),
              valid |-> WithKeys(t, val_choices),
              test |-> WithKeys(t, test_choices),
              st |-> RngAdvance(st, Len(trainval_intxn))]

\* Lines 139-155, for the eligible keys.
comb_test(t, h, nTest, nVal, intxn, st) ==
    IF nTest > Cardinality(intxn) THEN RaisedAt("ValueError", st)
    ELSE comb_val(t, h, nVal, intxn,
                  Range(Choice(ListOfSet(intxn, h), nTest, st).seq),
                  RngAdvance(st, Cardinality(intxn)))

\* Lines 129-155 on the table with its concat column; n cell lines.
comb_cells(t, h, frac, cells, st) ==
    LET test_size == IntMul(Len(t), frac.n[3], frac.d)
        train_size == IntMul(Len(t), frac.n[1], frac.d)
        val_size == Len(t) - train_size - test_size
        n == Cardinality(cells)
    IN  IF n = 0 THEN RaisedAt("IndexError", st)
        ELSE comb_test(t, h, test_size \div n, val_size \div n, Intersection(t, cells), st)

create_combination_split(t, seed, frac, h, st) ==
    comb_cells(AddConcat(t), h, frac,
               {t[i].Cell_Line_ID : i \in DOMAIN t}, SeededState(st, seed))

CombinationSplit(seed, frac) ==
    LET r == create_combination_split(df, seed, frac, hashSeed, npState)
    IN  /\ call' = [fn |-> "create_combination_split", input |-> df, cols |-> dfCols,
                    frac |-> frac, seed |-> seed, returned |-> r.returned]
        /\ out' = Outcome(r)
        /\ npState' = r.st
        /\ df' = AddConcat(df)
        /\ dfCols' = dfCols \cup {"concat"}
        /\ UNCHANGED <<hashSeed, args, ref>>

CombRatios ==
    { [n |-> <<4, 0, 4>>, d |-> 8], [n |-> <<0, 4, 4>>, d |-> 8],
      [n |-> <<2, 2, 4>>, d |-> 8], [n |-> <<4, 2, 2>>, d |-> 8],
      [n |-> <<7, 1, 2>>, d |-> 10] }

InitComb ==
    /\ df \in CombTables
    /\ dfCols = CombCols
    /\ npState = 0
    /\ hashSeed \in HashSeeds
    /\ args \in [frac : CombRatios, seed : 0 .. MaxSeed]
    /\ call = NoCall
    /\ out = NoOut
    /\ ref = NoCall

NextComb == CombinationSplit(args.seed, args.frac)

SpecComb == InitComb /\ [][NextComb]_vars

----------------------------------------------------------------------------
(* create_fold_time.  A row is [idx, date]; dates are totally ordered.     *)

Dates == 1 .. 3

TimeTables ==
    UNION { { [i \in 1 .. n |-> [idx |-> i - 1, date |-> d[i]]] : d \in [1 .. n -> Dates] } :
            n \in 0 .. MaxLen - 1 }

TimeRatios ==
    { [n |-> <<6, 1, 1>>, d |-> 8], [n |-> <<4, 2, 2>>, d |-> 8],
      [n |-> <<4, 4, 0>>, d |-> 8], [n |-> <<2, 2, 4>>, d |-> 8],
      [n |-> <<2, 4, 2>>, d |-> 8], [n |-> <<0, 4, 4>>, d |-> 8],
      [n |-> <<0, 0, 8>>, d |-> 8] }

\* Line 160: the rows in ascending date order (rows of one date in table order).
SortByDate(t) ==
    Order([i \in DOMAIN t |->
              1 + Cardinality({j \in DOMAIN t :
                      \/ t[j].date < t[i].date
                      \/ (t[j].date = t[i].date /\ j < i)})])

\* Faulty variant: rows on the boundary date left out of test.
TimeTestRows_strict(t, sorted, split_date) ==
    SelectSeq(sorted, LAMBDA p : t[p].date > split_date)

\* Line 164.
TimeTestRows(t, sorted, split_date) ==
    SelectSeq(sorted, LAMBDA p : t[p].date >= split_date)

\* Line 165.
TimeTrainValRows(t, sorted, split_date) ==
    SelectSeq(sorted, LAMBDA p : t[p].date < split_date)

\* Lines 168-173, for the boundary date of train and valid.
time_frames(t, sorted, test, train_val, split_date, split_date_valid) ==
    [returned |-> TRUE, error |-> "",
     train |-> SelectSeq(train_val, LAMBDA p : t[p].date <= split_date_valid),
     valid |-> SelectSeq(train_val, LAMBDA p : t[p].date > split_date_valid),
     test |-> test,
     split_time |->
        [train_time_frame |-> <<t[sorted[1]].date, split_date_valid>>,
         valid_time_frame |-> <<split_date_valid, split_date>>,
         test_time_frame |-> <<split_date, t[sorted[Len(sorted)]].date>>]]

RaisedTime(err) ==
    [returned |-> FALSE, error |-> err, train |-> <<>>, valid |-> <<>>,
     test |-> <<>>, split_time |-> <<>>]

\* Lines 167-173: an empty head of train_val has no last row.
time_valid(t, frac, sorted, test, train_val, split_date) ==
    LET cut == (Len(train_val) * frac.n[1]) \div (frac.n[1] + frac.n[2])
    IN  IF cut = 0 THEN RaisedTime("IndexError")
        ELSE time_frames(t, sorted, test, train_val, split_date, t[train_val[cut]].date)

time_test(t, frac, sorted, split_date) ==
    time_valid(t, frac, sorted, TimeTestRows(t, sorted, split_date),
               TimeTrainValRows(t, sorted, split_date), split_date)

\* Lines 163-173 on the sorted rows: an empty head has no last row.
time_sorted(t, frac, sorted) ==
    LET cut == IntMul(Len(t), frac.n[1] + frac.n[2], frac.d)
    IN  IF cut = 0 THEN RaisedTime("IndexError")
        ELSE time_test(t, frac, sorted, t[sorted[cut]].date)

create_fold_time(t, frac) == time_sorted(t, frac, SortByDate(t))

FoldTime(frac) ==
    LET r == create_fold_time(df, frac)
    IN  /\ call' = [fn |-> "create_fold_time", input |-> df, cols |-> dfCols,
                    frac |-> frac, returned |-> r.returned]
        /\ out' = [train |-> r.train, valid |-> r.valid, test |-> r.test,
                   split_time |-> r.split_time]
        /\ UNCHANGED <<df, dfCols, npState, hashSeed, args, ref>>

InitTime ==
    /\ df \in TimeTables
    /\ dfCols = {"date"}
    /\ npState = 0
    /\ hashSeed = 0
    /\ args \in [frac : TimeRatios]
    /\ call = NoCall
    /\ out = NoOut
    /\ ref = NoCall

NextTime == FoldTime(args.frac)

SpecTime == InitTime /\ [][NextTime]_vars

----------------------------------------------------------------------------
(* create_group_split *)

\* Lines 181-186: group by group, the state reseeded for each, a row kept
\* for train when its draw is below 1 - holdout_frac.
RECURSIVE GroupLoop(_, _, _, _, _, _, _)
GroupLoop(t, groups, k, seed, holdout, group_column, acc) ==
    IF k > Len(groups) THEN acc
    ELSE LET temp == WithEnts(t, Positions(t), group_column, {groups[k]})
             st == SeededState(acc.st, seed)
             msk == RandBelow(Len(temp), holdout.d - holdout.n, holdout.d, st)
             kept == SelectSeq([i \in 1 .. Len(temp) |-> i], LAMBDA i : msk[i])
             held == SelectSeq([i \in 1 .. Len(temp) |-> i], LAMBDA i : ~msk[i])
         IN  GroupLoop(t, groups, k + 1, seed, holdout, group_column,
                       [train |-> acc.train \o Take(temp, kept),
                        valid |-> acc.valid \o Take(temp, held),
                        st |-> RngAdvance(st, Len(temp))])

create_group_split(t, seed, holdout, group_column, st) ==
    GroupLoop(t, DropDuplicates(EntColumn(t, Positions(t), group_column)), 1,
              seed, holdout, group_column,
              [train |-> <<>>, valid |-> <<>>, st |-> st])

----------------------------------------------------------------------------
(* Calls in sequence in one process, on one table.  ref keeps the first    *)
(* call of the process with its outcome, to compare every later call of    *)
(* the same function on the same arguments with; a call here also records  *)
(* the process-wide random state it found.  The state the first call finds *)
(* is arbitrary (whatever ran before it), every later call finds what the  *)
(* calls before it left.                                                   *)

Remembered(c, o) == IF ref = NoCall THEN [fn |-> c.fn, call |-> c, out |-> o] ELSE ref

DetIndexSplit(len_data, frac, seed) ==
    LET r == train_val_test_split(len_data, frac, seed, npState)
        c == [fn |-> "train_val_test_split", len |-> len_data,
              frac |-> frac, seed |-> seed, returned |-> TRUE, found |-> npState]
        o == [train |-> r.train, valid |-> r.valid, test |-> r.test]
    IN  /\ call' = c
        /\ out' = o
        /\ npState' = r.st
        /\ ref' = Remembered(c, o)
        /\ UNCHANGED <<df, dfCols, hashSeed, args>>

DetGroupSplit(seed, holdout, group_column) ==
    LET r == create_group_split(df, seed, holdout, group_column, npState)
        c == [fn |-> "create_group_split", input |-> df, cols |-> dfCols,
              frac |-> holdout, seed |-> seed, entity |-> group_column,
              returned |-> TRUE, found |-> npState]
        o == [train |-> r.train, valid |-> r.valid]
    IN  /\ call' = c
        /\ out' = o
        /\ npState' = r.st
        /\ ref' = Remembered(c, o)
        /\ UNCHANGED <<df, dfCols, hashSeed, args>>

DetCombinationSplit(seed, frac) ==
    LET r == create_combination_split(df, seed, frac, hashSeed, npState)
        c == [fn |-> "create_combination_split", input |-> df, cols |-> dfCols,
              frac |-> frac, seed |-> seed, returned |-> r.returned, found |-> npState]
    IN  /\ call' = c
        /\ out' = Outcome(r)
        /\ npState' = r.st
        /\ df' = AddConcat(df)
        /\ dfCols' = dfCols \cup {"concat"}
        /\ ref' = Remembered(c, Outcome(r))
        /\ UNCHANGED <<hashSeed, args>>

DetFold(fold_seed, frac) ==
    LET r == create_fold(df, fold_seed, frac)
        c == [fn |-> "create_fold", input |-> df, cols |-> dfCols,
              frac |-> frac, seed |-> fold_seed, returned |-> r.returned, found |-> npState]
    IN  /\ call' = c
        /\ out' = Outcome(r)
        /\ ref' = Remembered(c, Outcome(r))
        /\ UNCHANGED <<df, dfCols, npState, hashSeed, args>>

DetFoldSettingCold(fold_seed, frac, entity) ==
    LET r == create_fold_setting_cold(df, fold_seed, frac, entity)
        c == [fn |-> "create_fold_setting_cold", input |-> df, cols |-> dfCols,
              frac |-> frac, seed |-> fold_seed, entity |-> entity,
              returned |-> r.returned, found |-> npState]
    IN  /\ call' = c
        /\ out' = Outcome(r)
        /\ ref' = Remembered(c, Outcome(r))
        /\ UNCHANGED <<df, dfCols, npState, hashSeed, args>>

DetSeeds == {0, 1}

DetRatio == [n |-> <<4, 0, 4>>, d |-> 8]

DetHoldout == [n |-> 4, d |-> 8]

\* Two-row drug-pair tables: the first kind of row, then the same key under
\* the other cell line, another key under the same cell line, or another
\* key under the other cell line.
DetTables ==
    {t \in CombTables :
        /\ Len(t) = 2
        /\ t[1] = CombRow(1, CombKinds[1])
        /\ t[2] \in {CombRow(2, CombKinds[k]) : k \in {2, 3, 4}}}

\* The table is fresh, or has been through create_combination_split before.
InitDet ==
    /\ \E t \in DetTables :
          \/ df = t /\ dfCols = CombCols
          \/ df = AddConcat(t) /\ dfCols = CombCols \cup {"concat"}
    /\ npState \in Entropy
    /\ hashSeed \in HashSeeds
    /\ args = [seed |-> 0]
    /\ call = NoCall
    /\ out = NoOut
    /\ ref = NoCall

NextDet ==
    \E seed \in DetSeeds :
        \/ DetIndexSplit(3, DetRatio, seed)
        \/ DetGroupSplit(seed, DetHoldout, "Cell_Line_ID")
        \/ DetCombinationSplit(seed, DetRatio)
        \/ DetFold(seed, DetRatio)
        \/ DetFoldSettingCold(seed, DetRatio, "Cell_Line_ID")

SpecDet == InitDet /\ [][NextDet]_vars

----------------------------------------------------------------------------
(* The claims. *)

IsInjective(x) == \A i, j \in DOMAIN x : x[i] = x[j] => i = j

Disjoint3(a, b, c) ==
    /\ Range(a) \cap Range(b) = {}
    /\ Range(a) \cap Range(c) = {}
    /\ Range(b) \cap Range(c) = {}

\* The three outputs hold every row of a table of n rows exactly once.
IsPartition(o, n) ==
    /\ IsInjective(o.train \o o.valid \o o.test)
    /\ Range(o.train \o o.valid \o o.test) = 1 .. n

DefaultIndex(t) == \A i \in DOMAIN t : t[i].idx = i - 1

TenthsExample == [n |-> <<8, 1, 1>>, d |-> 10]

EntsOf(t, ps) == {t[p][call.entity] : p \in Range(ps)}

KeysOf(t, ps) == {ConcatOf(t[p]) : p \in Range(ps)}

\* The names of the outputs that hold row p.
SplitsOf(o, p) ==
    {s \in {"train", "valid", "test"} : p \in Range(o[s])}

\* Two call records are of the same function on the same arguments.
SameCall(c1, c2) == [c1 EXCEPT !.found = 0] = [c2 EXCEPT !.found = 0]

\* C1: for every length, ratio triple and seed train_val_test_split returns
\* arrays of int(len*frac[0]), len - int(len*frac[0]) - int(len*frac[2]) and
\* int(len*frac[2]) indices, no index occurring in two of them.
C1_IndexArraysSizedAndDisjoint ==
    call.fn = "train_val_test_split" =>
        /\ Len(out.train) = IntMul(call.len, call.frac.n[1], call.frac.d)
        /\ Len(out.test) = IntMul(call.len, call.frac.n[3], call.frac.d)
        /\ Len(out.valid) = call.len - Len(out.train) - Len(out.test)
        /\ Disjoint3(out.train, out.valid, out.test)

\* C2 (as stated): create_fold(df, 42, (0.8,0.1,0.1)) on a 100-row table
\* yields 10 test rows, 9 valid rows and 81 train rows.
C2_Stated_HundredRows_10_9_81 ==
    (/\ call.fn = "create_fold" /\ call.returned
     /\ Len(call.input) = 100 /\ call.frac = TenthsExample /\ call.seed = 42)
    => (Len(out.test) = 10 /\ Len(out.valid) = 9 /\ Len(out.train) = 81)

\* C2 (amended): on a table with the default index create_fold yields
\* round(test_frac*N) test rows, round(val_frac/(1-test_frac) * (N - test
\* size)) valid rows and the remaining rows as train; for the 100-row table
\* and (0.8,0.1,0.1) that is 10 test, 10 valid and 80 train rows.
C2_FoldSizes ==
    (call.fn = "create_fold" /\ call.returned /\ DefaultIndex(call.input)) =>
        LET N == Len(call.input)
            f == call.frac
            nTest == Round(f.n[3] * N, f.d)
            nVal == Round(f.n[2] * (N - nTest), f.d - f.n[3])
        IN  /\ Len(out.test) = nTest
            /\ Len(out.valid) = nVal
            /\ Len(out.train) = N - nTest - nVal
            /\ (N = 100 /\ f = TenthsExample) =>
                   (Len(out.test) = 10 /\ Len(out.valid) = 10 /\ Len(out.train) = 80)

C2_Witness ==
    /\ call.fn = "create_fold" /\ call.returned
    /\ Len(call.input) = 100 /\ call.frac = TenthsExample /\ call.seed = 42
    /\ Len(out.valid) = 10

\* C3: no split function leaves the caller's table modified: after
\* create_fold, create_fold_setting_cold, create_scaffold_split,
\* create_combination_split, create_fold_time or create_group_split returns,
\* the table has exactly the columns and rows it had before the call.
C3_InputTableUnmodified ==
    (call.fn # "none" /\ call.returned) => (df = call.input /\ dfCols = call.cols)

\* C4: create_fold_setting_cold puts all rows sharing an entity value into
\* the same split: no entity value occurs in two of train, valid and test.
C4_ColdNoSharedEntity ==
    (call.fn = "create_fold_setting_cold" /\ call.returned) =>
        LET t == call.input
        IN  /\ EntsOf(t, out.train) \cap EntsOf(t, out.valid) = {}
            /\ EntsOf(t, out.train) \cap EntsOf(t, out.test) = {}
            /\ EntsOf(t, out.valid) \cap EntsOf(t, out.test) = {}

C4_Witness ==
    /\ call.fn = "create_fold_setting_cold" /\ call.returned
    /\ out.train # <<>> /\ out.valid # <<>> /\ out.test # <<>>
    /\ \E i, j \in DOMAIN call.input :
           i # j /\ call.input[i].ent = call.input[j].ent

\* C5: whenever create_combination_split returns, no Drug1_ID,Drug2_ID key
\* occurs in two of train, valid and test, and every key of test or valid
\* occurs under every Cell_Line_ID of the input.
C5_CombinationKeysSeparated ==
    (call.fn = "create_combination_split" /\ call.returned) =>
        LET t == call.input
            held == KeysOf(t, out.test) \cup KeysOf(t, out.valid)
        IN  /\ KeysOf(t, out.train) \cap KeysOf(t, out.valid) = {}
            /\ KeysOf(t, out.train) \cap KeysOf(t, out.test) = {}
            /\ KeysOf(t, out.valid) \cap KeysOf(t, out.test) = {}
            /\ \A key \in held : \A i \in DOMAIN t :
                   \E j \in DOMAIN t :
                       /\ t[j].Cell_Line_ID = t[i].Cell_Line_ID
                       /\ ConcatOf(t[j]) = key

C5_Witness ==
    /\ call.fn = "create_combination_split" /\ call.returned
    /\ Cardinality({call.input[i].Cell_Line_ID : i \in DOMAIN call.input}) = 2
    /\ out.test # <<>>
    /\ out.valid # <<>>
    /\ out.train # <<>>

\* C6: create_scaffold_split assigns every scaffold group as a whole, with a
\* zero or a nonzero test fraction: no two rows with the same scaffold land
\* in different output sets.
C6_ScaffoldGroupsWhole ==
    (call.fn = "create_scaffold_split" /\ call.returned) =>
        LET scaf == ScaffoldColumn(call.input, call.entity)
        IN  \A i, j \in DOMAIN scaf :
                scaf[i] = scaf[j] =>
                    /\ SplitsOf(out, i) = SplitsOf(out, j)
                    /\ Cardinality(SplitsOf(out, i)) = 1

C6_Witness ==
    /\ call.fn = "create_scaffold_split" /\ call.returned
    /\ \E i, j \in DOMAIN call.input :
          /\ i # j
          /\ call.input[i].ent # call.input[j].ent
          /\ MurckoScaffoldSmiles(call.input[i].ent) = MurckoScaffoldSmiles(call.input[j].ent)
    /\ out.train # <<>>
    /\ out.valid # <<>>
    /\ out.test # <<>>

\* C7: for test_frac < 1 the outputs of create_fold and of
\* create_fold_setting_cold are a partition of the input rows: pairwise
\* row-disjoint, no row lost, none duplicated.
C7_FoldAndColdPartition ==
    (/\ call.fn \in {"create_fold", "create_fold_setting_cold"}
     /\ call.returned /\ call.frac.n[3] < call.frac.d)
    => IsPartition(out, Len(call.input))

C9_SameCallSameOutputs ==
    (ref # NoCall /\ SameCall(call, ref.call)) => out = ref.out

\* A function that draws from the process-wide state was called twice on the
\* same arguments and found a different state the second time.
C9_Witness ==
    /\ ref # NoCall
    /\ SameCall(call, ref.call)
    /\ call.found # ref.call.found
    /\ call.fn \in {"train_val_test_split", "create_group_split", "create_combination_split"}
    /\ out.train # <<>>
    /\ out.valid # <<>>

\* C10: create_scaffold_split accounts for rows exactly: every row whose
\* SMILES yields a scaffold is in exactly one of train, valid, test, every
\* row whose SMILES raises is in none, so the sizes add up to len(df) minus
\* the error count; |train| <= int((len(df) - errors) * frac[0]) and, for a
\* nonzero frac[2], |valid| <= int((len(df) - errors) * frac[1]).
C10_ScaffoldAccounting ==
    call.fn = "create_scaffold_split" =>
        LET t == call.input
            all == out.train \o out.valid \o out.test
            errors == ErrorRows(t, call.entity)
            n == Len(t) - Cardinality(errors)
        IN  /\ IsInjective(all)
            /\ Range(all) = (1 .. Len(t)) \ errors
            /\ Len(all) = n
            /\ Len(out.train) <= IntMul(n, call.frac.n[1], call.frac.d)
            /\ call.frac.n[3] # 0 =>
                   Len(out.valid) <= IntMul(n, call.frac.n[2], call.frac.d)

====
